---- MODULE Spec2Model ----
(***************************************************************************)
(* The per-peer connection pipeline of bm_client (connection.rs): four     *)
(* threads (read, state, response, write), three channels and one shared   *)
(* state cell.                                                             *)
(***************************************************************************)
EXTENDS Integers, Sequences, FiniteSets, TLC

\* ------------------------------------------------------------------------
\* Bounds of the model
\* ------------------------------------------------------------------------

\* number of events the surroundings contribute to one connection: frames of
\* the peer that parse, and movements of the wall clock
MaxEvents == 4

\* payload bytes of a bulky frame (object) and of a medium frame
\* (addr, inv, getdata), scaled so that a few frames fill the buffer
BulkyBytes == 12000000
MediumBytes == 8000000

\* ------------------------------------------------------------------------
\* Program constants
\* ------------------------------------------------------------------------

MAX_WRITE_BUFFER_Short == 20000000 \div 10

MAX_WRITE_BUFFER == 20000000

\* Duration::seconds(20)
PreEstablishedLimit == 20

\* Duration::minutes(10), in seconds
EstablishedLimit == 600

\* enum Message
MessageKinds == {"Version", "Verack", "Addr", "Inv", "GetData", "Object"}

\* the tags of enum ConnectionState
Timestamped == {"Fresh", "GotVerackAwaitingVersion", "GotVersionAwaitingVerack", "Established"}

Terminal == {"Stale", "Error"}

Workers == {"read", "state", "response", "write"}

\* enum VerifyError of the proof of work
VerifyErrors == {"ObjectAlreadyDied", "ObjectLivesTooLong", "UnacceptableProof"}

\* fn verify_to_parse_error
VerifyToParseError(e) ==
    CASE e = "ObjectAlreadyDied" -> "ObjectExpired"
      [] e = "ObjectLivesTooLong" -> "ObjectLivesTooLong"
      [] e = "UnacceptableProof" -> "UnacceptablePow"

\* the parse errors ObjectMessage::read makes of a refused proof of work
PowErrors == {VerifyToParseError(e) : e \in VerifyErrors}

\* the Err values of read_message: "ParseError" stands for every error of
\* the frame, the body or the socket that is not about the proof of work
ParseErrors == {"ParseError"} \cup PowErrors

\* the errors read_message returns in the model: one of each kind
ReadErrors == {"ParseError", VerifyToParseError("UnacceptableProof")}

\* ConnectionState values: a timestamped tag, or a bare terminal tag
St(tag, t) == [tag |-> tag, time |-> t]

Bare(tag) == [tag |-> tag]

\* ------------------------------------------------------------------------
\* State
\* ------------------------------------------------------------------------

VARIABLES
    state,       \* the StateHolder cell shared by the state thread and the handle
    now,         \* the wall clock read by get_time()
    advances,    \* how often the clock has moved
    spawned,     \* the threads Builder::spawn started
    dropped,     \* the Connection handle was dropped (socket shut down)
    rpc, rmsg,   \* read thread: position, and the result it is sending
    spc,         \* state thread: position
    current_tag, \* state thread: tag of current_state of this tick
    new_state,   \* state thread: new_state of this tick
    forward_messages, \* state thread: frames still to send this tick
    queue,       \* state -> response channel: frames in flight
    xpc,         \* response thread: position
    wpc, wmsg,   \* write thread: position, and the message it is writing
    write_failed,\* the socket refused a write
    parsed,      \* history: frames read_message returned Ok
    applied,     \* history: frames the state thread took from the read channel
    forwarded,   \* history: frames the state thread sent on, with the state before
    received,    \* history: frames the response thread received
    sent,        \* history: messages the response thread handed to the write thread
    written,     \* history: messages written to the socket
    observed,    \* history: the tags the cell has held, in order
    codec,       \* a message codec at work: its input, payload and result
    handle,      \* the Connection that Connection::new returned
    client       \* the BMClient: its known-nodes store and its start-up

vars == <<state, now, advances, spawned, codec, handle, client, dropped, rpc, rmsg, spc,
          current_tag, new_state, forward_messages, queue, xpc, wpc, wmsg, write_failed,
          parsed, applied, forwarded, received, sent, written, observed>>

pipeline == <<rpc, rmsg, spc, current_tag, new_state, forward_messages, queue,
              xpc, wpc, wmsg, write_failed>>

history == <<parsed, applied, forwarded, received, sent, written, observed>>

\* ------------------------------------------------------------------------
\* Helpers
\* ------------------------------------------------------------------------

Gone(pc) == pc \in {"done", "panicked", "unspawned"}

\* payload bytes a frame occupies in the state -> response channel
Weight(m) ==
    CASE m = "Verack" -> 0
      [] m = "Version" -> 100
      [] m = "Object" -> BulkyBytes
      [] OTHER -> MediumBytes

\* payload bytes queued in the channel
RECURSIVE QueuedWeight(_)
QueuedWeight(q) == IF q = <<>> THEN 0 ELSE Weight(Head(q)) + QueuedWeight(Tail(q))

\* ConstrainedSender::send blocks until queued_weight + weight <= capacity
Fits(q, m, capacity) == QueuedWeight(q) + Weight(m) <= capacity

\* the write to the cell, and the record of what the cell has held
Observe(obs, tag) == IF obs[Len(obs)] = tag THEN obs ELSE Append(obs, tag)

\* read_chan.try_recv() on the rendezvous channel from the read thread
TryRecv ==
    IF rpc = "send" THEN rmsg
    ELSE IF Gone(rpc) THEN "Disconnected"
    ELSE "Empty"

\* the arms of the match of create_state_thread
TransitionTable(current, event, t) ==
    LET tag == current.tag IN
    CASE event = "Empty" -> [new |-> current, fwd |-> <<>>]
      [] event = "Disconnected" -> [new |-> Bare("Error"), fwd |-> <<>>]
      [] event \in ParseErrors -> [new |-> Bare("Error"), fwd |-> <<>>]
      [] tag = "Fresh" /\ event = "Version" ->
            [new |-> St("GotVersionAwaitingVerack", t), fwd |-> <<event>>]
      [] tag = "Fresh" /\ event = "Verack" ->
            [new |-> St("GotVerackAwaitingVersion", t), fwd |-> <<>>]
      [] tag = "Fresh" /\ event \notin {"Version", "Verack"} ->
            [new |-> Bare("Error"), fwd |-> <<>>]
      [] tag = "GotVersionAwaitingVerack" /\ event = "Verack" ->
            [new |-> St("Established", t), fwd |-> <<event>>]
      [] tag = "GotVersionAwaitingVerack" /\ event # "Verack" ->
            [new |-> Bare("Error"), fwd |-> <<>>]
      [] tag = "GotVerackAwaitingVersion" /\ event = "Version" ->
            [new |-> St("Established", t), fwd |-> <<event>>]
      [] tag = "GotVerackAwaitingVersion" /\ event # "Version" ->
            [new |-> Bare("Error"), fwd |-> <<>>]
      [] tag = "Established" ->
            [new |-> St("Established", t), fwd |-> <<event>>]
      [] OTHER -> [new |-> current, fwd |-> <<>>]

Transition_AnyFrameEstablishes(current, event, t) ==
    IF current.tag = "GotVersionAwaitingVerack" /\ event \in MessageKinds
    THEN [new |-> St("Established", t), fwd |-> <<event>>]
    ELSE TransitionTable(current, event, t)

Transition_SwappedAwaiting(current, event, t) ==
    IF current.tag = "Fresh" /\ event = "Verack"
    THEN [new |-> St("GotVersionAwaitingVerack", t), fwd |-> <<>>]
    ELSE TransitionTable(current, event, t)

Transition_IgnoreParseError(current, event, t) ==
    IF event \in ParseErrors
    THEN [new |-> current, fwd |-> <<>>]
    ELSE TransitionTable(current, event, t)

Transition_LenientFresh(current, event, t) ==
    IF current.tag = "Fresh" /\ event \in MessageKinds \ {"Version", "Verack"}
    THEN [new |-> current, fwd |-> <<>>]
    ELSE TransitionTable(current, event, t)

Transition_ReplayVerack(current, event, t) ==
    IF current.tag = "GotVerackAwaitingVersion" /\ event = "Version"
    THEN [new |-> St("Established", t), fwd |-> <<event, "Verack">>]
    ELSE TransitionTable(current, event, t)

Transition_DropLateVersion(current, event, t) ==
    IF current.tag = "GotVerackAwaitingVersion" /\ event = "Version"
    THEN [new |-> St("Established", t), fwd |-> <<>>]
    ELSE TransitionTable(current, event, t)

\* let (new_state, forward_messages) = match (current_state, read_chan.try_recv())
Transition(current, event, t) == TransitionTable(current, event, t)

\* the staleness limit the state thread passes to check_staleness
LimitOf(tag) == IF tag = "Established" THEN EstablishedLimit ELSE PreEstablishedLimit

IsStale_Inclusive(t_now, time, duration) == t_now >= time + duration

\* check_staleness: now > time + duration
IsStale(t_now, time, duration) == t_now > time + duration

ExitsLoop_ErrorOnly(tag) == tag = "Error"

ExitsLoop_StaleOnly(tag) == tag = "Stale"

\* the match on state_holder.get_state() that ends the loop of the state thread
ExitsLoop(tag) == tag \in Terminal

\* the read thread after its send returned: if parse_error { break }
AfterSend(result) == IF result \in ParseErrors THEN "done" ELSE "read"

AfterReceive_AckBoth(m) == IF m \in {"Version", "Verack"} THEN "verack" ELSE "recv"

\* the match on the message of the response thread: a Version is answered
\* with a Verack, every other frame with nothing
AfterReceive(m) == IF m = "Version" THEN "verack" ELSE "recv"

\* ------------------------------------------------------------------------
\* Initial state: new_from_stream
\* ------------------------------------------------------------------------

Start(w) == IF w \in spawned THEN (CASE w = "read" -> "read"
                                     [] w = "state" -> "tick"
                                     [] w = "response" -> "version"
                                     [] w = "write" -> "recv")
            ELSE "unspawned"

\* struct Connection: the state holder it reads ("shared" with the state
\* thread, or an "error" holder of its own) and its tcp_stream
Connection(state_holder, tcp_stream) == [state |-> state_holder, tcp_stream |-> tcp_stream]

error_connection_SharedHolder(tcp_stream) == Connection("shared", tcp_stream)

\* fn error_connection: StateHolder::new(ConnectionState::Error)
error_connection(tcp_stream) == Connection("error", tcp_stream)

\* Connection::state(): self.state.get_state()
ConnectionState == IF handle.state = "shared" THEN state ELSE Bare("Error")

\* no BMClient at work
ClientIdle ==
    [pc |-> "idle", clock |-> [sec |-> 0, nsec |-> 0], known_nodes |-> <<>>, picked |-> <<>>]

\* the connection as new_from_stream leaves it
NewFromStream ==
    /\ now = 0
    /\ advances = 0
    /\ state = St("Fresh", 0)
    /\ spawned \in {Workers} \cup {Workers \ {w} : w \in Workers}
    /\ handle = IF spawned = Workers THEN Connection("shared", "Some")
                ELSE error_connection("Some")
    /\ dropped = FALSE
    /\ rpc = Start("read")
    /\ rmsg = "none"
    /\ spc = Start("state")
    /\ current_tag = "none"
    /\ new_state = Bare("none")
    /\ forward_messages = <<>>
    /\ queue = <<>>
    /\ xpc = Start("response")
    /\ wpc = Start("write")
    /\ wmsg = "none"
    /\ write_failed = FALSE
    /\ parsed = <<>>
    /\ applied = <<>>
    /\ forwarded = <<>>
    /\ received = <<>>
    /\ sent = <<>>
    /\ written = <<>>
    /\ observed = <<"Fresh">>

\* no codec at work
CodecIdle ==
    [kind |-> "idle", phase |-> "idle", clock |-> [sec |-> 0, nsec |-> 0], input |-> <<>>,
     message |-> <<>>, payload |-> <<>>, damage |-> "none",
     result |-> [ok |-> FALSE, err |-> "none"]]

\* Connection::new when TcpStream::connect fails: no stream, no threads, and
\* no state holder but the one of error_connection
ConnectFailed ==
    /\ handle = error_connection("None")
    /\ now = 0
    /\ advances = 0
    /\ state = Bare("none")
    /\ spawned = {}
    /\ dropped = FALSE
    /\ rpc = Start("read")
    /\ rmsg = "none"
    /\ spc = Start("state")
    /\ current_tag = "none"
    /\ new_state = Bare("none")
    /\ forward_messages = <<>>
    /\ queue = <<>>
    /\ xpc = Start("response")
    /\ wpc = Start("write")
    /\ wmsg = "none"
    /\ write_failed = FALSE
    /\ parsed = <<>>
    /\ applied = <<>>
    /\ forwarded = <<>>
    /\ received = <<>>
    /\ sent = <<>>
    /\ written = <<>>
    /\ observed = <<"none">>

\* Connection::new
ConnectionNew == NewFromStream \/ ConnectFailed

Init ==
    /\ codec = CodecIdle
    /\ client = ClientIdle
    /\ ConnectionNew

\* ------------------------------------------------------------------------
\* Environment: the clock and the owner of the handle
\* ------------------------------------------------------------------------

\* get_time(): the clock has moved on by d since it was last read; it is
\* read by the state thread only, so it moves in the steps that read it
Elapsed == {0, PreEstablishedLimit, EstablishedLimit}

GetTime(d) ==
    /\ d \in Elapsed
    /\ d > 0 => Len(parsed) + advances < MaxEvents
    /\ advances' = IF d > 0 THEN advances + 1 ELSE advances
    /\ now' = now + d

\* impl Drop for Connection: tcp_stream.shutdown(Shutdown::Both)
Drop ==
    /\ ~dropped
    /\ dropped' = TRUE
    /\ UNCHANGED <<state, now, advances, spawned, codec, handle, client, pipeline, history>>

\* ------------------------------------------------------------------------
\* Read thread
\* ------------------------------------------------------------------------

\* read_message returns Ok(m)
ReadOk(m) ==
    /\ rpc = "read"
    /\ Len(parsed) + advances < MaxEvents
    /\ rpc' = "send"
    /\ rmsg' = m
    /\ parsed' = Append(parsed, m)
    /\ UNCHANGED <<state, now, advances, spawned, codec, handle, client, dropped, spc, current_tag, new_state,
                   forward_messages, queue, xpc, wpc, wmsg, write_failed,
                   applied, forwarded, received, sent, written, observed>>

\* read_message returns Err(e): a malformed frame, an object whose proof of
\* work is refused, the peer closing, or the socket shut down by Drop
ReadErr(e) ==
    /\ rpc = "read"
    /\ rpc' = "send"
    /\ rmsg' = e
    /\ UNCHANGED <<state, now, advances, spawned, codec, handle, client, dropped, spc, current_tag, new_state,
                   forward_messages, queue, xpc, wpc, wmsg, write_failed, history>>

\* state_chan.send(message).unwrap() with the receiver gone
ReadSendFail ==
    /\ rpc = "send"
    /\ Gone(spc)
    /\ rpc' = "panicked"
    /\ rmsg' = "none"
    /\ UNCHANGED <<state, now, advances, spawned, codec, handle, client, dropped, spc, current_tag, new_state,
                   forward_messages, queue, xpc, wpc, wmsg, write_failed, history>>

\* ------------------------------------------------------------------------
\* State thread
\* ------------------------------------------------------------------------

\* get_state, try_recv, the match, set_state(new_state)
StateTick ==
    /\ spc = "tick"
    /\ \E d \in Elapsed :
        LET event == TryRecv
            r == Transition(state, event, now + d)
        IN /\ IF event \in MessageKinds /\ r.new.tag \in Timestamped THEN GetTime(d)
              ELSE d = 0 /\ UNCHANGED <<now, advances>>
           /\ state' = r.new
           /\ new_state' = r.new
           /\ current_tag' = state.tag
           /\ forward_messages' = r.fwd
           /\ observed' = Observe(observed, r.new.tag)
           /\ spc' = IF r.fwd = <<>> THEN "check" ELSE "send"
           /\ IF rpc = "send"
              THEN /\ rpc' = AfterSend(rmsg)
                   /\ rmsg' = "none"
                   /\ applied' = IF rmsg \in ParseErrors THEN applied ELSE Append(applied, rmsg)
              ELSE UNCHANGED <<rpc, rmsg, applied>>
    /\ UNCHANGED <<spawned, codec, handle, client, dropped, queue, xpc, wpc, wmsg, write_failed,
                   parsed, forwarded, received, sent, written>>

\* response_chan.send(forward_message).unwrap()
StateSend ==
    /\ spc = "send"
    /\ LET m == Head(forward_messages) IN
       IF Gone(xpc)
       THEN /\ spc' = "panicked"
            /\ forward_messages' = <<>>
            /\ UNCHANGED <<queue, forwarded>>
       ELSE /\ Fits(queue, m, MAX_WRITE_BUFFER)
            /\ queue' = Append(queue, m)
            /\ forwarded' = Append(forwarded, [msg |-> m, before |-> current_tag])
            /\ forward_messages' = Tail(forward_messages)
            /\ spc' = IF Tail(forward_messages) = <<>> THEN "check" ELSE "send"
    /\ UNCHANGED <<state, now, advances, spawned, codec, handle, client, dropped, rpc, rmsg, current_tag,
                   new_state, xpc, wpc, wmsg, write_failed,
                   parsed, applied, received, sent, written, observed>>

\* the staleness match, check_staleness, and the exit test of the loop
StateCheck ==
    /\ spc = "check"
    /\ \E d \in Elapsed :
        LET stale == /\ new_state.tag \in Timestamped
                     /\ IsStale(now + d, new_state.time, LimitOf(new_state.tag))
            after == IF stale THEN Bare("Stale") ELSE state
        IN /\ IF new_state.tag \in Timestamped THEN GetTime(d)
              ELSE d = 0 /\ UNCHANGED <<now, advances>>
           /\ state' = after
           /\ observed' = Observe(observed, after.tag)
           /\ spc' = IF ExitsLoop(after.tag) THEN "done" ELSE "tick"
    /\ current_tag' = "none"
    /\ new_state' = Bare("none")
    /\ UNCHANGED <<spawned, codec, handle, client, dropped, rpc, rmsg, forward_messages, queue,
                   xpc, wpc, wmsg, write_failed,
                   parsed, applied, forwarded, received, sent, written>>

\* ------------------------------------------------------------------------
\* Response thread and its rendezvous with the write thread
\* ------------------------------------------------------------------------

Outgoing == IF xpc = "version" THEN "Version" ELSE "Verack"

Rendezvous_Buffered(receiver) == receiver \in {"recv", "write"}

\* sync_channel(0): a send completes when the receiver is in recv()
Rendezvous(receiver) == receiver = "recv"

\* write_chan.send(..) meets response_chan.recv() of the write thread
Handover ==
    /\ xpc \in {"version", "verack"}
    /\ Rendezvous(wpc)
    /\ wmsg' = Outgoing
    /\ wpc' = "write"
    /\ xpc' = "recv"
    /\ sent' = Append(sent, Outgoing)
    /\ UNCHANGED <<state, now, advances, spawned, codec, handle, client, dropped, rpc, rmsg, spc, current_tag,
                   new_state, forward_messages, queue, write_failed,
                   parsed, applied, forwarded, received, written, observed>>

\* return_on_err! / break_on_err! of write_chan.send with the receiver gone
ResponseSendFail ==
    /\ xpc \in {"version", "verack"}
    /\ Gone(wpc)
    /\ xpc' = "done"
    /\ UNCHANGED <<state, now, advances, spawned, codec, handle, client, dropped, rpc, rmsg, spc, current_tag,
                   new_state, forward_messages, queue, wpc, wmsg, write_failed, history>>

\* state_chan.recv() returns Ok(m), and the match on the message
ResponseRecv ==
    /\ xpc = "recv"
    /\ queue # <<>>
    /\ queue' = Tail(queue)
    /\ received' = Append(received, Head(queue))
    /\ xpc' = AfterReceive(Head(queue))
    /\ UNCHANGED <<state, now, advances, spawned, codec, handle, client, dropped, rpc, rmsg, spc, current_tag,
                   new_state, forward_messages, wpc, wmsg, write_failed,
                   parsed, applied, forwarded, sent, written, observed>>

\* state_chan.recv() returns Err: the channel is empty and its sender gone
ResponseRecvClosed ==
    /\ xpc = "recv"
    /\ queue = <<>>
    /\ Gone(spc)
    /\ xpc' = "done"
    /\ UNCHANGED <<state, now, advances, spawned, codec, handle, client, dropped, rpc, rmsg, spc, current_tag,
                   new_state, forward_messages, queue, wpc, wmsg, write_failed, history>>

\* ------------------------------------------------------------------------
\* Write thread
\* ------------------------------------------------------------------------

\* response_chan.recv() returns Err
WriteRecvClosed ==
    /\ wpc = "recv"
    /\ Gone(xpc)
    /\ wpc' = "done"
    /\ UNCHANGED <<state, now, advances, spawned, codec, handle, client, dropped, rpc, rmsg, spc, current_tag,
                   new_state, forward_messages, queue, xpc, wmsg, write_failed, history>>

\* write_message and stream.write_all succeed
WriteOk ==
    /\ wpc = "write"
    /\ ~dropped
    /\ written' = Append(written, wmsg)
    /\ wpc' = "recv"
    /\ wmsg' = "none"
    /\ UNCHANGED <<state, now, advances, spawned, codec, handle, client, dropped, rpc, rmsg, spc, current_tag,
                   new_state, forward_messages, queue, xpc, write_failed,
                   parsed, applied, forwarded, received, sent, observed>>

WriteFail_SetsError ==
    /\ wpc = "write"
    /\ wpc' = "done"
    /\ wmsg' = "none"
    /\ write_failed' = TRUE
    /\ state' = Bare("Error")
    /\ observed' = Observe(observed, "Error")
    /\ UNCHANGED <<now, advances, spawned, codec, handle, client, dropped, rpc, rmsg, spc, current_tag,
                   new_state, forward_messages, queue, xpc,
                   parsed, applied, forwarded, received, sent, written>>

\* stream.write_all fails: break_on_err!
WriteFail ==
    /\ wpc = "write"
    /\ wpc' = "done"
    /\ wmsg' = "none"
    /\ write_failed' = TRUE
    /\ UNCHANGED <<state, now, advances, spawned, codec, handle, client, dropped, rpc, rmsg, spc, current_tag,
                   new_state, forward_messages, queue, xpc, history>>

\* ------------------------------------------------------------------------
\* Specification
\* ------------------------------------------------------------------------

Next ==
    \/ Drop
    \/ \E m \in MessageKinds : ReadOk(m)
    \/ \E e \in ReadErrors : ReadErr(e)
    \/ ReadSendFail
    \/ StateTick
    \/ StateSend
    \/ StateCheck
    \/ Handover
    \/ ResponseSendFail
    \/ ResponseRecv
    \/ ResponseRecvClosed
    \/ WriteRecvClosed
    \/ WriteOk
    \/ WriteFail

Spec == Init /\ [][Next]_vars

\* Every thread that can take a step is eventually scheduled.  The socket
\* alone decides when a read returns or a write completes, except that after
\* shutdown(Shutdown::Both) a read and a write fail without waiting.
Fairness ==
    /\ WF_vars(dropped /\ ReadErr("ParseError"))
    /\ WF_vars(ReadSendFail)
    /\ WF_vars(StateTick)
    /\ WF_vars(StateSend)
    /\ WF_vars(StateCheck)
    /\ WF_vars(Handover)
    /\ WF_vars(ResponseSendFail)
    /\ WF_vars(ResponseRecv)
    /\ WF_vars(ResponseRecvClosed)
    /\ WF_vars(WriteRecvClosed)
    /\ WF_vars(dropped /\ WriteFail)

FairSpec == Spec /\ Fairness

\* ------------------------------------------------------------------------
\* Message codecs (message/object/mod.rs, message/addr.rs,
\* message/getdata.rs).  A payload is a sequence of fields; a field stands
\* for w bytes holding the big-endian value v, so the byte layout is the
\* sequence of the widths.  Payloads are built and cut at whole fields.
\* ------------------------------------------------------------------------

\* longest list whose contents are enumerated; longer lists follow a pattern
MaxShortList == 2

\* largest nonce of an object message that was not made by generate_proof
MaxNonce == 3

MAX_NODES_COUNT == 1000

MAX_GETDATA_COUNT == 50000

\* 2^18
MAX_PAYLOAD_LENGTH_FOR_OBJECT == 262144

\* the window of verify_proof, in seconds, scaled down
MAX_TTL == 3

OBJECT_EXPIRY_CUTOFF == 2

\* the third argument of ProofOfWorkConfig::new in calculate_nonce
GenerateGrace == 60

\* read_bytes(&mut cursor, 32)
HashBytes == 32

\* u64::max_value(), the limit read_with_time passes to read_var_int: the
\* largest integer of the model
Unlimited == 2147483647

\* the values of the digest of the proof of work, scaled down from 2^64
HashSpace == 16

Field(w, v) == [w |-> w, v |-> v]

RECURSIVE ByteLen(_)
ByteLen(payload) == IF payload = <<>> THEN 0 ELSE Head(payload).w + ByteLen(Tail(payload))

Ok(v, pos) == [ok |-> TRUE, value |-> v, pos |-> pos]

Err(e) == [ok |-> FALSE, err |-> e]

\* time::Timespec
Timespec(sec, nsec) == [sec |-> sec, nsec |-> nsec]

Before(a, b) == a.sec < b.sec \/ (a.sec = b.sec /\ a.nsec < b.nsec)

PlusSeconds(t, s) == Timespec(t.sec + s, t.nsec)

\* read_u32, read_u64, read_bytes: the next w bytes of the cursor
ReadFixed(payload, pos, w) ==
    IF pos <= Len(payload) /\ payload[pos].w = w
    THEN Ok(payload[pos].v, pos + 1)
    ELSE Err("ShortRead")

\* read_timestamp: signed 64-bit seconds
ReadTimestamp(payload, pos) ==
    LET sec == ReadFixed(payload, pos, 8)
    IN IF sec.ok THEN Ok(Timespec(sec.value, 0), sec.pos) ELSE sec

\* write_var_int_64, for the values of the model (below 2^31)
WriteVarInt64(v) ==
    IF v < 253 THEN <<Field(1, v)>>
    ELSE IF v <= 65535 THEN <<Field(1, 253), Field(2, v)>>
    ELSE <<Field(1, 254), Field(4, v)>>

\* write_var_int_16
WriteVarInt16(v) ==
    IF v < 253 THEN <<Field(1, v)>> ELSE <<Field(1, 253), Field(2, v)>>

\* read_var_int and read_var_int_usize
ReadVarInt(payload, pos, max) ==
    LET first == ReadFixed(payload, pos, 1)
        value == IF first.value < 253 THEN first
                 ELSE ReadFixed(payload, first.pos,
                                CASE first.value = 253 -> 2
                                  [] first.value = 254 -> 4
                                  [] OTHER -> 8)
    IN IF ~first.ok THEN first
       ELSE IF ~value.ok THEN value
       ELSE IF value.value > max THEN Err("VarIntTooLarge")
       ELSE value

\* check_no_more_data
CheckNoMoreData(payload, pos) ==
    IF pos <= Len(payload) THEN Err("TrailingBytes") ELSE Ok("nothing", pos)

\* len() as u16
AsU16(n) == n % 65536

\* ------------------------------------------------------------------------
\* Proof of work (message::pow), with a small digest in place of SHA-512
\* ------------------------------------------------------------------------

RECURSIVE Mix(_)
Mix(data) ==
    IF data = <<>> THEN 0
    ELSE (Head(data).w + 3 * (Head(data).v % HashSpace) + 7 * Mix(Tail(data))) % HashSpace

\* trial(nonce): the leading bytes of D(nonce || initial_hash)
Trial(nonce, data) == (5 * nonce + Mix(data)) % HashSpace

\* ttl_seconds = max(0, expiry - now), in whole seconds
TtlSeconds(expiry, time) ==
    LET whole == expiry.sec - time.sec
    IN IF whole <= 0 THEN 0
       ELSE IF expiry.nsec < time.nsec THEN whole - 1
       ELSE whole

\* the target falls as the data and the time to live grow
Target(data, ttl) == HashSpace \div (2 + ByteLen(data) \div 16 + ttl)

Valid(nonce, data, expiry, time) == Trial(nonce, data) <= Target(data, TtlSeconds(expiry, time))

ProofOfWorkConfig(past_grace, max_ttl, time) ==
    [past_grace |-> past_grace, max_ttl |-> max_ttl, time |-> time]

verify_proof(nonce, data, expiry, config) ==
    IF Before(expiry, PlusSeconds(config.time, 0 - config.past_grace))
    THEN Err("ObjectAlreadyDied")
    ELSE IF Before(PlusSeconds(config.time, config.max_ttl), expiry)
    THEN Err("ObjectLivesTooLong")
    ELSE IF ~Valid(nonce, data, expiry, config.time)
    THEN Err("UnacceptableProof")
    ELSE Ok("accepted", 0)

generate_proof(data, expiry, config) ==
    IF Before(expiry, config.time) \/ Before(PlusSeconds(config.time, config.max_ttl), expiry)
    THEN Err("TtlOutOfRange")
    ELSE Ok(CHOOSE n \in 0..(HashSpace - 1) :
                /\ Valid(n, data, expiry, config.time)
                /\ \A m \in 0..(n - 1) : ~Valid(m, data, expiry, config.time), 0)

\* ------------------------------------------------------------------------
\* Object messages
\* ------------------------------------------------------------------------

ObjectTypes == {"GetPubKey", "PubKey", "Msg", "Broadcast"}

object_type_code(object_type) ==
    CASE object_type = "GetPubKey" -> 0
      [] object_type = "PubKey" -> 1
      [] object_type = "Msg" -> 2
      [] object_type = "Broadcast" -> 3

parse_object_type_code(code) ==
    CASE code = 0 -> Ok("GetPubKey", 0)
      [] code = 1 -> Ok("PubKey", 0)
      [] code = 2 -> Ok("Msg", 0)
      [] code = 3 -> Ok("Broadcast", 0)
      [] OTHER -> Err("UnknownObjectType")

\* ObjectMessage::new
ObjectMessage(nonce, expiry, object_type, version, stream_number, object) ==
    [nonce |-> nonce, expiry |-> expiry, object_type |-> object_type,
     version |-> version, stream_number |-> stream_number, object |-> object]

\* GetPubKeyV4::read: the object has no fields to read
GetPubKeyV4Read(payload, pos) == Ok("GetPubKeyV4", pos)

read_object(object_type, version, payload, pos) ==
    IF object_type = "GetPubKey" /\ version = 4
    THEN GetPubKeyV4Read(payload, pos)
    ELSE Err("UnknownObjectVersion")

create_object_message_payload(expiry, object_type, version, stream_number) ==
    <<Field(8, expiry.sec), Field(4, object_type_code(object_type))>>
        \o WriteVarInt64(version) \o WriteVarInt64(stream_number)

ObjectPayload_ExpiryFirst(m) ==
    <<Field(8, m.expiry.sec), Field(8, m.nonce)>>
        \o Tail(create_object_message_payload(m.expiry, m.object_type, m.version, m.stream_number))

\* impl Message for ObjectMessage: payload()
ObjectPayload(m) ==
    <<Field(8, m.nonce)>>
        \o create_object_message_payload(m.expiry, m.object_type, m.version, m.stream_number)

ProofData_WholePayload(payload) == payload

\* &payload[8..]
ProofData(payload) == SubSeq(payload, 2, Len(payload))

read_with_time(time, payload) ==
    LET nonce == ReadFixed(payload, 1, 8)
        expiry == ReadTimestamp(payload, nonce.pos)
        verify_config == ProofOfWorkConfig(OBJECT_EXPIRY_CUTOFF, MAX_TTL, time)
        proof == verify_proof(nonce.value, ProofData(payload), expiry.value, verify_config)
        code == ReadFixed(payload, expiry.pos, 4)
        object_type == parse_object_type_code(code.value)
        version == ReadVarInt(payload, code.pos, Unlimited)
        stream_number == ReadVarInt(payload, version.pos, Unlimited)
        object == read_object(object_type.value, version.value, payload, stream_number.pos)
        rest == CheckNoMoreData(payload, object.pos)
    IN IF ByteLen(payload) > MAX_PAYLOAD_LENGTH_FOR_OBJECT THEN Err("PayloadTooBig")
       ELSE IF ~nonce.ok THEN nonce
       ELSE IF ~expiry.ok THEN expiry
       ELSE IF ~proof.ok THEN Err(VerifyToParseError(proof.err))
       ELSE IF ~code.ok THEN code
       ELSE IF ~object_type.ok THEN object_type
       ELSE IF ~version.ok THEN version
       ELSE IF ~stream_number.ok THEN stream_number
       ELSE IF ~object.ok THEN object
       ELSE IF ~rest.ok THEN rest
       ELSE Ok(ObjectMessage(nonce.value, expiry.value, object_type.value,
                             version.value, stream_number.value, object.value), rest.pos)

\* OutboundObjectMessage::new
OutboundObjectMessage(ttl, object_type, version, stream_number, object) ==
    [ttl |-> ttl, object_type |-> object_type, version |-> version,
     stream_number |-> stream_number, object |-> object]

calculate_nonce(payload, expiry, time) ==
    generate_proof(payload, expiry, ProofOfWorkConfig(GenerateGrace, MAX_TTL, time))

create_object_message_ProofForNow(out, time) ==
    LET expiry == PlusSeconds(time, out.ttl)
        payload == create_object_message_payload(expiry, out.object_type, out.version,
                                                 out.stream_number)
        nonce == calculate_nonce(payload, time, time)
    IN IF ~nonce.ok THEN nonce
       ELSE Ok(ObjectMessage(nonce.value, expiry, out.object_type, out.version,
                             out.stream_number, out.object), 0)

create_object_message(out, time) ==
    LET expiry == PlusSeconds(time, out.ttl)
        payload == create_object_message_payload(expiry, out.object_type, out.version,
                                                 out.stream_number)
        nonce == calculate_nonce(payload, expiry, time)
    IN IF ~nonce.ok THEN nonce
       ELSE Ok(ObjectMessage(nonce.value, expiry, out.object_type, out.version,
                             out.stream_number, out.object), 0)

\* ------------------------------------------------------------------------
\* Addr messages
\* ------------------------------------------------------------------------

SocketAddr(ip, port) == [ip |-> ip, port |-> port]

\* KnownNode::new
KnownNode(last_seen, stream, services, socket_addr) ==
    [last_seen |-> last_seen, stream |-> stream, services |-> services,
     socket_addr |-> socket_addr]

\* ::ffff:0:0/96
MappedPrefix == <<0, 0, 0, 0, 0, 0, 0, 0, 0, 0, 255, 255>>

\* write_address_and_port
WriteAddressAndPort(socket_addr) ==
    <<Field(16, MappedPrefix \o socket_addr.ip), Field(2, socket_addr.port)>>

\* read_address_and_port
ReadAddressAndPort(payload, pos) ==
    LET address == ReadFixed(payload, pos, 16)
        port == ReadFixed(payload, address.pos, 2)
    IN IF ~address.ok THEN address
       ELSE IF ~port.ok THEN port
       ELSE IF SubSeq(address.value, 1, 12) # MappedPrefix THEN Err("BadEndpoint")
       ELSE Ok(SocketAddr(SubSeq(address.value, 13, 16), port.value), port.pos)

\* the fields of one record of an addr payload
AddrRecord(node) ==
    <<Field(8, node.last_seen.sec), Field(4, node.stream), Field(8, node.services)>>
        \o WriteAddressAndPort(node.socket_addr)

AddrRecordFields == 5

AddrPayload_CountAsByte(addr_list) ==
    LET head == <<Field(1, Len(addr_list) % 256)>>
    IN [i \in 1..(Len(head) + AddrRecordFields * Len(addr_list)) |->
           IF i <= Len(head) THEN head[i]
           ELSE AddrRecord(addr_list[((i - Len(head) - 1) \div AddrRecordFields) + 1])
                          [((i - Len(head) - 1) % AddrRecordFields) + 1]]

\* impl Message for AddrMessage: payload(); the loop over the nodes as one
\* sequence
AddrPayload(addr_list) ==
    LET head == WriteVarInt16(AsU16(Len(addr_list)))
    IN [i \in 1..(Len(head) + AddrRecordFields * Len(addr_list)) |->
           IF i <= Len(head) THEN head[i]
           ELSE AddrRecord(addr_list[((i - Len(head) - 1) \div AddrRecordFields) + 1])
                          [((i - Len(head) - 1) % AddrRecordFields) + 1]]

\* one turn of the loop of AddrMessage::read, at the k-th record
AddrReadRecord(payload, first, k) ==
    LET pos == first + AddrRecordFields * (k - 1)
        timestamp == ReadTimestamp(payload, pos)
        stream == ReadFixed(payload, timestamp.pos, 4)
        services == ReadFixed(payload, stream.pos, 8)
        addr == ReadAddressAndPort(payload, services.pos)
    IN IF ~timestamp.ok THEN timestamp
       ELSE IF ~stream.ok THEN stream
       ELSE IF ~services.ok THEN services
       ELSE IF ~addr.ok THEN addr
       ELSE Ok(KnownNode(timestamp.value, stream.value, services.value, addr.value), addr.pos)

AddrRead_NoTrailingCheck(payload) ==
    LET count == ReadVarInt(payload, 1, MAX_NODES_COUNT)
        failed == {k \in 1..count.value : ~AddrReadRecord(payload, count.pos, k).ok}
        first_failed == CHOOSE k \in failed : \A j \in failed : k <= j
    IN IF ~count.ok THEN count
       ELSE IF failed # {} THEN AddrReadRecord(payload, count.pos, first_failed)
       ELSE Ok([k \in 1..count.value |-> AddrReadRecord(payload, count.pos, k).value],
               count.pos + AddrRecordFields * count.value)

\* AddrMessage::read
AddrRead(payload) ==
    LET count == ReadVarInt(payload, 1, MAX_NODES_COUNT)
        failed == {k \in 1..count.value : ~AddrReadRecord(payload, count.pos, k).ok}
        first_failed == CHOOSE k \in failed : \A j \in failed : k <= j
        rest == CheckNoMoreData(payload, count.pos + AddrRecordFields * count.value)
    IN IF ~count.ok THEN count
       ELSE IF failed # {} THEN AddrReadRecord(payload, count.pos, first_failed)
       ELSE IF ~rest.ok THEN rest
       ELSE Ok([k \in 1..count.value |-> AddrReadRecord(payload, count.pos, k).value], rest.pos)

\* ------------------------------------------------------------------------
\* Getdata messages
\* ------------------------------------------------------------------------

\* impl Message for GetdataMessage: payload()
GetdataPayload(inventory) ==
    LET head == WriteVarInt16(AsU16(Len(inventory)))
    IN [i \in 1..(Len(head) + Len(inventory)) |->
           IF i <= Len(head) THEN head[i] ELSE Field(HashBytes, inventory[i - Len(head)])]

GetdataRead_OffByOne(payload) ==
    LET count == ReadVarInt(payload, 1, MAX_GETDATA_COUNT)
        turns == IF count.value = 0 THEN 0 ELSE count.value - 1
        failed == {k \in 1..turns : ~ReadFixed(payload, count.pos + k - 1, HashBytes).ok}
        rest == CheckNoMoreData(payload, count.pos + turns)
    IN IF ~count.ok THEN count
       ELSE IF failed # {} THEN Err("ShortRead")
       ELSE IF ~rest.ok THEN rest
       ELSE Ok([k \in 1..turns |-> payload[count.pos + k - 1].v], rest.pos)

\* GetdataMessage::read
GetdataRead(payload) ==
    LET count == ReadVarInt(payload, 1, MAX_GETDATA_COUNT)
        failed == {k \in 1..count.value : ~ReadFixed(payload, count.pos + k - 1, HashBytes).ok}
        rest == CheckNoMoreData(payload, count.pos + count.value)
    IN IF ~count.ok THEN count
       ELSE IF failed # {} THEN Err("ShortRead")
       ELSE IF ~rest.ok THEN rest
       ELSE Ok([k \in 1..count.value |-> payload[count.pos + k - 1].v], rest.pos)

\* ------------------------------------------------------------------------
\* A codec at work: a message is made, encoded, carried and read back
\* ------------------------------------------------------------------------

connection == <<state, now, advances, spawned, handle, dropped, pipeline, history>>

\* the clock of the TimeFn handed to the codec
Clocks == {Timespec(10, 0), Timespec(10, 500000000)}

Expiries ==
    {Timespec(10 + d, nsec) :
        d \in {0 - OBJECT_EXPIRY_CUTOFF - 1, 0 - OBJECT_EXPIRY_CUTOFF, 0, MAX_TTL, MAX_TTL + 1},
        nsec \in {0, 500000000}}

Versions == {3, 4}

StreamNumbers == {1, 254}

Hashes == {"hash1", "hash2"}

Nodes ==
    {KnownNode(Timespec(1, 0), 2, 3, SocketAddr(<<12, 13, 14, 15>>, 1617)),
     KnownNode(Timespec(4, 0), 5, 6, SocketAddr(<<22, 23, 24, 25>>, 2627)),
     KnownNode(Timespec(7, 500000000), 1, 1, SocketAddr(<<127, 0, 0, 1>>, 8444))}

\* the lists up to MaxShortList, and lists at the steps of the count
ShortLists(S) == UNION {[1..n -> S] : n \in 0..MaxShortList}

LongList(n, a, b) == [i \in 1..n |-> IF i % 2 = 1 THEN a ELSE b]

\* list lengths around the step of the var-int count from one byte to three
CountSteps == {252, 253}

NodeLists ==
    ShortLists(Nodes) \cup
    {LongList(n, CHOOSE x \in Nodes : x.stream = 2, CHOOSE x \in Nodes : x.stream = 1) :
        n \in CountSteps \cup {MAX_NODES_COUNT}}

HashLists ==
    ShortLists(Hashes) \cup {LongList(n, "hash1", "hash2") : n \in CountSteps \cup {1000}}

Job(kind, phase, clock, input) ==
    [kind |-> kind, phase |-> phase, clock |-> clock, input |-> input, message |-> input,
     payload |-> <<>>, damage |-> "none", result |-> Err("none")]

CodecInputs ==
    {Job("outbound", "input", t, OutboundObjectMessage(ttl, ty, v, s, "GetPubKeyV4")) :
        t \in Clocks, ttl \in 0..(MAX_TTL + 1), ty \in ObjectTypes, v \in Versions,
        s \in StreamNumbers}
    \cup
    {Job("object", "message", t, ObjectMessage(n, e, ty, v, s, "GetPubKeyV4")) :
        t \in Clocks, n \in 0..MaxNonce, e \in Expiries, ty \in {"GetPubKey", "Msg"},
        v \in Versions, s \in StreamNumbers}
    \cup {Job("addr", "message", Timespec(10, 0), l) : l \in NodeLists}
    \cup {Job("getdata", "message", Timespec(10, 0), l) : l \in HashLists}

\* what becomes of a payload on its way to the reader
Damages == {"none", "truncated", "trailing", "surplus", "oversize"}

Damage(payload, d) ==
    CASE d = "none" -> payload
      [] d = "truncated" -> SubSeq(payload, 1, Len(payload) - 1)
      [] d = "trailing" -> Append(payload, Field(1, 0))
      [] d = "surplus" -> Append(payload, payload[Len(payload)])
      [] d = "oversize" -> Append(payload, Field(MAX_PAYLOAD_LENGTH_FOR_OBJECT, 0))

\* OutboundObjectMessage::create_object_message
CreateMessage ==
    /\ codec.kind = "outbound"
    /\ codec.phase = "input"
    /\ LET made == create_object_message(codec.input, codec.clock)
       IN codec' = IF made.ok
                   THEN [codec EXCEPT !.phase = "message", !.message = made.value]
                   ELSE [codec EXCEPT !.phase = "failed", !.result = made]
    /\ UNCHANGED <<connection, client>>

ObjectEncode ==
    /\ codec.kind \in {"outbound", "object"}
    /\ codec.phase = "message"
    /\ codec' = [codec EXCEPT !.phase = "encoded", !.payload = ObjectPayload(codec.message)]
    /\ UNCHANGED <<connection, client>>

AddrEncode ==
    /\ codec.kind = "addr"
    /\ codec.phase = "message"
    /\ codec' = [codec EXCEPT !.phase = "encoded", !.payload = AddrPayload(codec.message)]
    /\ UNCHANGED <<connection, client>>

GetdataEncode ==
    /\ codec.kind = "getdata"
    /\ codec.phase = "message"
    /\ codec' = [codec EXCEPT !.phase = "encoded", !.payload = GetdataPayload(codec.message)]
    /\ UNCHANGED <<connection, client>>

\* the payload reaches a reader, whole or not
Transmit(d) ==
    /\ codec.phase = "encoded"
    /\ codec' = [codec EXCEPT !.phase = "received", !.damage = d,
                              !.payload = Damage(codec.payload, d)]
    /\ UNCHANGED <<connection, client>>

ObjectDecode ==
    /\ codec.kind \in {"outbound", "object"}
    /\ codec.phase = "received"
    /\ codec' = [codec EXCEPT !.phase = "decoded",
                              !.result = read_with_time(codec.clock, codec.payload)]
    /\ UNCHANGED <<connection, client>>

AddrDecode ==
    /\ codec.kind = "addr"
    /\ codec.phase = "received"
    /\ codec' = [codec EXCEPT !.phase = "decoded", !.result = AddrRead(codec.payload)]
    /\ UNCHANGED <<connection, client>>

GetdataDecode ==
    /\ codec.kind = "getdata"
    /\ codec.phase = "received"
    /\ codec' = [codec EXCEPT !.phase = "decoded", !.result = GetdataRead(codec.payload)]
    /\ UNCHANGED <<connection, client>>

CodecInit ==
    /\ codec \in CodecInputs
    /\ client = ClientIdle
    /\ NewFromStream
    /\ spawned = Workers

CodecNext ==
    \/ CreateMessage
    \/ ObjectEncode
    \/ AddrEncode
    \/ GetdataEncode
    \/ \E d \in Damages : Transmit(d)
    \/ ObjectDecode
    \/ AddrDecode
    \/ GetdataDecode

CodecSpec == CodecInit /\ [][CodecNext]_vars

\* ------------------------------------------------------------------------
\* The client at start-up (lib.rs) and its known-nodes store
\* (known_nodes.rs)
\* ------------------------------------------------------------------------

\* most nodes the store holds when the client starts
MaxStored == 3

\* fn bootstrap_nodes: 127.0.0.1:8444, stream 1, services 1
bootstrap_nodes(time) == <<KnownNode(time, 1, 1, SocketAddr(<<127, 0, 0, 1>>, 8444))>>

\* Persister::add_known_node
PersisterAdd(store, known_node) == Append(store, known_node)

\* KnownNodes::len
KnownNodesLen(store) == Len(store)

\* KnownNodes::add_known_node for an address that is a socket address:
\* to_socket_addrs() yields the address itself
add_known_node(store, time, stream, services, address) ==
    PersisterAdd(store, KnownNode(time, stream, services, address))

\* for known_node in bootstrap_nodes() { known_nodes.add_known_node(..) }
RECURSIVE AddEach(_, _, _)
AddEach(store, nodes, time) ==
    IF nodes = <<>> THEN store
    ELSE AddEach(add_known_node(store, time, Head(nodes).stream, Head(nodes).services,
                                Head(nodes).socket_addr),
                 Tail(nodes), time)

bootstrap_known_nodes_Always(store, time) == AddEach(store, bootstrap_nodes(time), time)

\* fn bootstrap_known_nodes
bootstrap_known_nodes(store, time) ==
    IF KnownNodesLen(store) = 0 THEN AddEach(store, bootstrap_nodes(time), time) ELSE store

\* the stores the persister can hold when the client is made
Stores == UNION {[1..n -> Nodes] : n \in 0..MaxStored}

\* BMClient::start: bootstrap_known_nodes, then the peer connector starts
ClientStart ==
    /\ client.pc = "new"
    /\ client' = [client EXCEPT !.pc = "started",
                                !.known_nodes = bootstrap_known_nodes(client.known_nodes,
                                                                      client.clock)]
    /\ UNCHANGED <<connection, codec>>

\* KnownNodes::get_random for the peer connector: rng.choose(..).unwrap()
GetRandom ==
    /\ client.pc = "started"
    /\ IF client.known_nodes = <<>>
       THEN client' = [client EXCEPT !.pc = "panicked"]
       ELSE \E i \in DOMAIN client.known_nodes :
               client' = [client EXCEPT !.picked = <<client.known_nodes[i]>>]
    /\ UNCHANGED <<connection, codec>>

\* BMClient::new over a persister that holds some store
ClientInit ==
    /\ client \in {[pc |-> "new", clock |-> t, known_nodes |-> l, picked |-> <<>>] :
                       t \in Clocks, l \in Stores}
    /\ codec = CodecIdle
    /\ NewFromStream
    /\ spawned = Workers

ClientNext == ClientStart \/ GetRandom

ClientSpec == ClientInit /\ [][ClientNext]_vars

\* ------------------------------------------------------------------------
\* Properties
\* ------------------------------------------------------------------------

IsPrefix(s, t) == Len(s) <= Len(t) /\ SubSeq(t, 1, Len(s)) = s

RECURSIVE IsSubsequence(_, _)
IsSubsequence(s, t) ==
    IF s = <<>> THEN TRUE
    ELSE IF t = <<>> THEN FALSE
    ELSE IF Head(s) = Head(t) THEN IsSubsequence(Tail(s), Tail(t))
    ELSE IsSubsequence(s, Tail(t))

Count(x, s) == Cardinality({i \in DOMAIN s : s[i] = x})

ForwardedFrames == [i \in DOMAIN forwarded |-> forwarded[i].msg]

\* the state thread takes a step of its own
StateStep == spc' # spc

\* C1: once the cell holds Error or Stale no step changes it, and the state
\* thread is past its match (it never starts another tick): it is at the
\* exit test of the same tick or has left the loop.
C1_TerminalIsFinal ==
    [][state.tag \in Terminal =>
          /\ state' = state
          /\ spc \in {"check", "done"}
          /\ spc' \in {"check", "done"}
          /\ (StateStep => spc' = "done")]_vars

C1_Witness ==
    /\ state.tag = "Stale"
    /\ spc = "done"
    /\ rpc = "read"
    /\ observed = <<"Fresh", "GotVersionAwaitingVerack", "Established", "Stale">>

\* C2: every frame the state thread forwarded while the state before the
\* frame was not Established is a Version or a Verack.
C2_HandshakeGating ==
    \A i \in DOMAIN forwarded :
        forwarded[i].before # "Established" => forwarded[i].msg \in {"Version", "Verack"}

C2_Witness ==
    /\ Len(forwarded) = 3
    /\ forwarded[1] = [msg |-> "Version", before |-> "Fresh"]
    /\ forwarded[2] = [msg |-> "Verack", before |-> "GotVersionAwaitingVerack"]
    /\ forwarded[3] = [msg |-> "Inv", before |-> "Established"]

HandshakeTrace(first, second, between) ==
    /\ (Len(applied) >= 1 /\ applied[1] = first) =>
            /\ Len(observed) >= 2
            /\ SubSeq(observed, 1, 2) = <<"Fresh", between>>
    /\ (Len(applied) >= 2 /\ applied[1] = first /\ applied[2] = second) =>
            /\ Len(observed) >= 3
            /\ SubSeq(observed, 1, 3) = <<"Fresh", between, "Established">>

\* C3: when the first two frames applied are Version then Verack the cell
\* has held Fresh, GotVersionAwaitingVerack, Established in this order with
\* nothing in between; when they are Verack then Version it has held Fresh,
\* GotVerackAwaitingVersion, Established.
C3_HandshakeEitherOrder ==
    /\ HandshakeTrace("Version", "Verack", "GotVersionAwaitingVerack")
    /\ HandshakeTrace("Verack", "Version", "GotVerackAwaitingVersion")

C3_Witness ==
    /\ applied = <<"Verack", "Version">>
    /\ observed = <<"Fresh", "GotVerackAwaitingVersion", "Established">>
    /\ state.tag = "Established"

\* C4: a tick that finds a parse error or a closed read channel sets the
\* cell to Error and forwards nothing, and the next step of the state thread
\* leaves the loop; the read thread parses no frame after a parse error.
C4_ErrorTerminates ==
    /\ [][(spc = "tick" /\ StateStep /\ TryRecv \in ParseErrors \cup {"Disconnected"}) =>
              /\ state' = Bare("Error")
              /\ spc' = "check"
              /\ forward_messages' = <<>>
              /\ forwarded' = forwarded /\ queue' = queue
              /\ (TryRecv \in ParseErrors => rpc' = "done")]_vars
    /\ [][(state.tag = "Error" /\ StateStep) => spc' = "done"]_vars
    /\ [][(rmsg \in ParseErrors \/ rpc \in {"done", "panicked"}) =>
              /\ parsed' = parsed
              /\ rpc' # "read"]_vars

C4_Witness ==
    /\ state.tag = "Error"
    /\ spc = "done"
    /\ rpc = "done"
    /\ applied = <<"Version", "Verack", "Object">>
    /\ Len(forwarded) = 3
    /\ observed = <<"Fresh", "GotVersionAwaitingVerack", "Established", "Error">>

\* the frame a tick takes is not the one the handshake waits for
Unexpected(tag, m) ==
    \/ tag = "Fresh" /\ m \in MessageKinds \ {"Version", "Verack"}
    \/ tag = "GotVersionAwaitingVerack" /\ m \in MessageKinds \ {"Verack"}
    \/ tag = "GotVerackAwaitingVersion" /\ m \in MessageKinds \ {"Version"}

\* C5: a tick that takes an unexpected frame in Fresh,
\* GotVersionAwaitingVerack or GotVerackAwaitingVersion sets the cell to
\* Error and forwards nothing; when the first frame is neither Version nor
\* Verack nothing but the initial Version is ever handed over or written,
\* and a write thread that ended on a healthy socket has written exactly it.
C5_UnexpectedFrame ==
    /\ [][(spc = "tick" /\ StateStep /\ Unexpected(state.tag, TryRecv)) =>
              /\ state' = Bare("Error")
              /\ forward_messages' = <<>>
              /\ forwarded' = forwarded /\ queue' = queue
              /\ applied' = Append(applied, TryRecv)]_vars
    /\ []((Len(applied) >= 1 /\ applied[1] \notin {"Version", "Verack"}) =>
              /\ state.tag = "Error"
              /\ forwarded = <<>> /\ received = <<>>
              /\ IsPrefix(sent, <<"Version">>)
              /\ IsPrefix(written, <<"Version">>)
              /\ (wpc = "done" /\ ~write_failed /\ spawned = Workers =>
                     written = <<"Version">>))

C5_Witness ==
    /\ applied = <<"Inv">>
    /\ state.tag = "Error"
    /\ written = <<"Version">>
    /\ wpc = "done" /\ xpc = "done" /\ spc = "done"
    /\ ~write_failed

\* C6: the step that ends a tick sets the cell to Stale exactly when the
\* state carries a timestamp t and now - t is more than 20 (Fresh,
\* GotVersionAwaitingVerack, GotVerackAwaitingVersion) or more than 600
\* (Established); no other step sets it to Stale.
C6_Staleness ==
    [][/\ (spc = "check" /\ StateStep) =>
              (state'.tag = "Stale" <=>
                  \/ /\ state.tag \in {"Fresh", "GotVersionAwaitingVerack",
                                        "GotVerackAwaitingVersion"}
                     /\ now' - state.time > 20
                  \/ /\ state.tag = "Established"
                     /\ now' - state.time > 600)
       /\ (state'.tag = "Stale" /\ state.tag # "Stale") => (spc = "check" /\ StateStep)]_vars

C6_Witness ==
    /\ state.tag = "Stale"
    /\ observed = <<"Fresh", "Stale">>
    /\ parsed = <<>>
    /\ rpc = "read"
    /\ now = EstablishedLimit

\* C7: the first message handed to the write thread is the Version, and it
\* is handed over before any forwarded frame is received; every later
\* message is a Verack, one for each forwarded Version received (the last
\* one possibly still to be handed over); the socket sees them in this
\* order, so Version and then Verack in both handshake orders.
C7_OutboundHandshake ==
    /\ (sent # <<>> => sent[1] = "Version")
    /\ (received # <<>> => sent # <<>>)
    /\ \A i \in DOMAIN sent : i > 1 => sent[i] = "Verack"
    /\ Count("Verack", sent) <= Count("Version", received)
    /\ (xpc = "recv" => Count("Verack", sent) = Count("Version", received))
    /\ (xpc = "verack" => Count("Verack", sent) + 1 = Count("Version", received))
    /\ (xpc = "done" => Count("Verack", sent) + 1 >= Count("Version", received))
    /\ IsPrefix(written, sent)
    /\ (Len(written) >= 2 => SubSeq(written, 1, 2) = <<"Version", "Verack">>)

C7_Witness ==
    /\ applied = <<"Version", "Verack">>
    /\ received = <<"Version", "Verack">>
    /\ written = <<"Version", "Verack">>

\* C8: the frames the state thread applied are the frames parsed, in order
\* (all but at most the one in flight); the frames forwarded are a
\* subsequence of them; the frames the response thread received are the
\* forwarded ones in order, the rest still queued; the messages written are
\* the messages handed over, in order, all but at most the one being written.
C8_PerPeerOrdering ==
    /\ IsPrefix(applied, parsed)
    /\ Len(parsed) - Len(applied) <= 1
    /\ IsSubsequence(ForwardedFrames, applied)
    /\ IsPrefix(received, ForwardedFrames)
    /\ ForwardedFrames = received \o queue
    /\ IsPrefix(written, sent)
    /\ Len(sent) - Len(written) <= 1

C8_Witness ==
    /\ parsed = <<"Verack", "Version", "Version", "Addr">>
    /\ applied = parsed
    /\ ForwardedFrames = <<"Version", "Version", "Addr">>
    /\ received = ForwardedFrames
    /\ sent = <<"Version", "Verack", "Verack">>
    /\ written = sent

\* C9: the state -> response channel holds at most 20,000,000 payload
\* bytes; with the response thread alive, the send of the state thread can
\* proceed exactly when the queued bytes plus the frame's bytes are at most
\* 20,000,000; the frames forwarded are the frames received followed by the
\* frames still queued (none is dropped or reordered).
C9_Backpressure ==
    /\ QueuedWeight(queue) <= 20000000
    /\ (spc = "send" /\ ~Gone(xpc)) =>
          (ENABLED StateSend <=>
              QueuedWeight(queue) + Weight(Head(forward_messages)) <= 20000000)
    /\ ForwardedFrames = received \o queue

C9_Witness ==
    /\ spc = "send"
    /\ xpc = "verack" /\ wpc = "write"
    /\ queue = <<"Verack", "Object">>
    /\ forward_messages = <<"Object">>
    /\ ~ENABLED StateSend

AllTerminated == Gone(rpc) /\ Gone(spc) /\ Gone(xpc) /\ Gone(wpc)

C11_WriteErrorTerminates ==
    (spawned = Workers /\ write_failed /\ AllTerminated) => state.tag \in Terminal

\* ------------------------------------------------------------------------
\* C12: a refused proof of work on an inbound object drops that object only:
\* the step of the state thread that takes the refusal from the read thread
\* does not put Error into the cell, and the read thread reads on.
\* ------------------------------------------------------------------------
C12_PowFailureSurvives ==
    [][(spc = "tick" /\ StateStep /\ TryRecv \in PowErrors) =>
           (state'.tag # "Error" /\ rpc' = "read")]_vars

\* ------------------------------------------------------------------------
\* C13: the state thread is the single writer of the cell: every step that
\* changes the cell is a step of the state thread at its set_state or its
\* check_staleness, and the values the cell has held are the values the
\* state thread wrote, in the order it wrote them.
\* ------------------------------------------------------------------------
C13_SingleWriter ==
    [][state' # state =>
           /\ spc \in {"tick", "check"}
           /\ StateStep
           /\ state' \in {Transition(state, TryRecv, now').new, Bare("Stale")}
           /\ observed' = Append(observed, state'.tag) \/ state'.tag = state.tag]_vars

\* the cell was written twice while the other three threads were at work
C13_Witness ==
    /\ spawned = Workers
    /\ Len(observed) >= 3
    /\ written # <<>>
    /\ received # <<>>
    /\ write_failed

\* ------------------------------------------------------------------------
\* C14 (as stated): the channel from the response thread to the write thread
\* is unbounded: with all four threads started, a send of the response thread
\* never waits for the write thread, it completes or fails at once.
\* ------------------------------------------------------------------------
C14_SendNeverBlocks ==
    (spawned = Workers /\ xpc \in {"version", "verack"}) =>
        (ENABLED Handover \/ ENABLED ResponseSendFail)

\* C14 (amended): the channel from the response thread to the write thread
\* is a rendezvous channel: while the write thread is writing to the socket
\* a send of the response thread waits, and never more than one message has
\* been handed over without being written.
C14_RendezvousSend ==
    /\ (xpc \in {"version", "verack"} /\ wpc = "write") =>
           (~ENABLED Handover /\ ~ENABLED ResponseSendFail)
    /\ Len(sent) <= Len(written) + 1

\* the Verack waits while the Version is still being written
C14_Witness ==
    /\ spawned = Workers
    /\ xpc = "verack"
    /\ wpc = "write"
    /\ wmsg = "Version"

\* ------------------------------------------------------------------------
\* C15: the response thread answers a forwarded Inv with a GetData: once it
\* has dealt with an Inv and is back at its receive, a GetData has been
\* handed to the write thread.
\* ------------------------------------------------------------------------
C15_InvAnswered ==
    (spawned = Workers /\ xpc = "recv" /\ \E i \in DOMAIN received : received[i] = "Inv") =>
        \E j \in DOMAIN sent : sent[j] = "GetData"

\* ------------------------------------------------------------------------
\* Properties of the codecs
\* ------------------------------------------------------------------------

ObjectDecoded == codec.kind \in {"outbound", "object"} /\ codec.phase = "decoded"

\* the payload is long enough to hold a nonce and an expiry
HeaderReadable(payload) == Len(payload) >= 2 /\ payload[1].w = 8 /\ payload[2].w = 8

InWindow(expiry, time) ==
    /\ ~Before(expiry, PlusSeconds(time, 0 - OBJECT_EXPIRY_CUTOFF))
    /\ ~Before(PlusSeconds(time, MAX_TTL), expiry)

\* the nonce of the payload is a proof of work for its expiry and the bytes
\* after the nonce, and the expiry lies in the window around the time
PostParse(payload, time) ==
    /\ Valid(payload[1].v, Tail(payload), Timespec(payload[2].v, 0), time)
    /\ InWindow(Timespec(payload[2].v, 0), time)

WholeSeconds(t) == Timespec(t.sec, 0)

\* the bytes of a message its proof of work is about
ProofInput(m) ==
    create_object_message_payload(m.expiry, m.object_type, m.version, m.stream_number)

Supported(m) == m.object_type = "GetPubKey" /\ m.version = 4

\* C16 (as stated): every object message read_with_time returns has a nonce
\* that is a proof of work for its expiry and the payload after the nonce,
\* and an expiry within [now - OBJECT_EXPIRY_CUTOFF, now + MAX_TTL]; a
\* payload that is not so is refused with ObjectExpired, ObjectLivesTooLong
\* or UnacceptablePow.
C16_PostParse ==
    (ObjectDecoded /\ HeaderReadable(codec.payload)) =>
        IF PostParse(codec.payload, codec.clock)
        THEN TRUE
        ELSE ~codec.result.ok /\ codec.result.err \in PowErrors

\* C16 (amended): every object message read_with_time returns has such a
\* nonce and expiry; a payload that is not so is refused and no message is
\* returned: with PayloadTooBig when it is longer than
\* MAX_PAYLOAD_LENGTH_FOR_OBJECT, and otherwise with ObjectExpired,
\* ObjectLivesTooLong or UnacceptablePow.
C16_PostParseWithinLimit ==
    ObjectDecoded =>
        /\ codec.result.ok =>
               HeaderReadable(codec.payload) /\ PostParse(codec.payload, codec.clock)
        /\ (HeaderReadable(codec.payload) /\ ~PostParse(codec.payload, codec.clock)) =>
               /\ ~codec.result.ok
               /\ IF ByteLen(codec.payload) > MAX_PAYLOAD_LENGTH_FOR_OBJECT
                  THEN codec.result.err = "PayloadTooBig"
                  ELSE codec.result.err \in PowErrors

\* a hand-made object message was read back and returned
C16_Witness ==
    /\ codec.kind = "object"
    /\ codec.phase = "decoded"
    /\ codec.result.ok

\* C17 (as stated): for every outbound object with 0 <= ttl <= MAX_TTL the
\* message create_object_message makes at a time, encoded and read back at
\* the same time, is read successfully.
C17_PowRoundTrip ==
    (/\ codec.kind = "outbound"
     /\ codec.phase = "decoded"
     /\ codec.damage = "none"
     /\ codec.input.ttl \in 0..MAX_TTL) => codec.result.ok

\* C17 (amended): for every outbound object with 0 <= ttl <= MAX_TTL
\* create_object_message finds a nonce, and verify_proof at the same time
\* accepts it for the encoded message; reading the message back succeeds
\* when its type and version are (GetPubKey, 4) and fails with
\* UnknownObjectVersion otherwise.
C17_PowRoundTripSupported ==
    /\ (codec.kind = "outbound" /\ codec.phase = "failed") =>
           codec.input.ttl \notin 0..MAX_TTL
    /\ (codec.kind = "outbound" /\ codec.phase = "decoded" /\ codec.damage = "none") =>
           /\ verify_proof(codec.message.nonce, Tail(codec.payload),
                           WholeSeconds(codec.message.expiry),
                           ProofOfWorkConfig(OBJECT_EXPIRY_CUTOFF, MAX_TTL, codec.clock)).ok
           /\ codec.result.ok <=> Supported(codec.message)
           /\ ~codec.result.ok => codec.result.err = "UnknownObjectVersion"

\* a message made with the longest time to live, at a clock between two
\* seconds, was read back
C17_Witness ==
    /\ codec.kind = "outbound"
    /\ codec.phase = "decoded"
    /\ codec.damage = "none"
    /\ codec.input.ttl = MAX_TTL
    /\ codec.clock.nsec # 0
    /\ codec.result.ok

\* the layout of an object payload: nonce (8), expiry (8), type code (4),
\* var-int version, var-int stream number, and the empty body
ObjectLayout(payload, m) ==
    payload = <<Field(8, m.nonce), Field(8, m.expiry.sec),
                Field(4, object_type_code(m.object_type))>>
                  \o WriteVarInt64(m.version) \o WriteVarInt64(m.stream_number)

\* C18 (as stated): for every object message of a supported type and
\* version whose nonce is a valid proof and whose expiry is within the
\* window at the time of reading, the payload has the layout and
\* read_with_time of it returns the same nonce, expiry, type, version and
\* stream number.
C18_ObjectRoundTrip ==
    (/\ ObjectDecoded
     /\ codec.damage = "none"
     /\ Supported(codec.message)
     /\ InWindow(codec.message.expiry, codec.clock)
     /\ Valid(codec.message.nonce, ProofInput(codec.message),
              codec.message.expiry, codec.clock)) =>
        /\ ObjectLayout(codec.payload, codec.message)
        /\ codec.result.ok
        /\ codec.result.value = codec.message

\* C18 (amended): the expiry is encoded in whole seconds: when the expiry
\* cut to whole seconds is within the window and the nonce is a valid proof
\* for it, the payload has the layout and read_with_time of it returns the
\* same nonce, type, version and stream number, and the expiry cut to whole
\* seconds.
C18_ObjectRoundTripSeconds ==
    (/\ ObjectDecoded
     /\ codec.damage = "none"
     /\ Supported(codec.message)
     /\ InWindow(WholeSeconds(codec.message.expiry), codec.clock)
     /\ Valid(codec.message.nonce, ProofInput(codec.message),
              WholeSeconds(codec.message.expiry), codec.clock)) =>
        /\ ObjectLayout(codec.payload, codec.message)
        /\ codec.result.ok
        /\ codec.result.value =
               [codec.message EXCEPT !.expiry = WholeSeconds(codec.message.expiry)]

\* a hand-made message with an expiry between two seconds was read back
C18_Witness ==
    /\ codec.kind = "object"
    /\ codec.phase = "decoded"
    /\ codec.damage = "none"
    /\ codec.message.expiry.nsec # 0
    /\ codec.message.stream_number >= 253
    /\ codec.result.ok

\* the layout of a list payload: the var-int count, then the records
ListLayout(payload, count, widths) ==
    LET head == WriteVarInt64(count)
    IN /\ Len(payload) = Len(head) + Len(widths) * count
       /\ SubSeq(payload, 1, Len(head)) = head
       /\ \A i \in 1..(Len(widths) * count) :
              payload[Len(head) + i].w = widths[((i - 1) % Len(widths)) + 1]

\* C19 (as stated): for every list of at most 1000 known nodes the payload
\* is the var-int count and per node a timestamp (8), stream (4), services
\* (8), address (16) and port (2), and read of it returns the same nodes
\* in the same order.
C19_AddrRoundTrip ==
    (codec.kind = "addr" /\ codec.phase = "decoded" /\ codec.damage = "none") =>
        /\ ListLayout(codec.payload, Len(codec.message), <<8, 4, 8, 16, 2>>)
        /\ codec.result.ok
        /\ codec.result.value = codec.message

\* C19 (amended): last_seen is encoded in whole seconds: read returns the
\* nodes in the same order with the same stream, services and endpoint, and
\* last_seen cut to whole seconds.
C19_AddrRoundTripSeconds ==
    (codec.kind = "addr" /\ codec.phase = "decoded" /\ codec.damage = "none") =>
        /\ ListLayout(codec.payload, Len(codec.message), <<8, 4, 8, 16, 2>>)
        /\ codec.result.ok
        /\ codec.result.value =
               [i \in 1..Len(codec.message) |->
                   [codec.message[i] EXCEPT
                       !.last_seen = WholeSeconds(codec.message[i].last_seen)]]

\* a list of MAX_NODES_COUNT nodes, some seen between two seconds, was read
\* back
C19_Witness ==
    /\ codec.kind = "addr"
    /\ codec.phase = "decoded"
    /\ codec.damage = "none"
    /\ Len(codec.message) = MAX_NODES_COUNT
    /\ codec.message[2].last_seen.nsec # 0
    /\ codec.result.ok

\* C20: for every list of at most 50000 inventory vectors the payload is
\* the var-int count and then 32 bytes of hash per vector, and read of it
\* returns the same vectors in the same order.
C20_GetdataRoundTrip ==
    (codec.kind = "getdata" /\ codec.phase = "decoded" /\ codec.damage = "none") =>
        /\ ListLayout(codec.payload, Len(codec.message), <<32>>)
        /\ codec.result.ok
        /\ codec.result.value = codec.message

\* a list whose count takes three bytes was read back
C20_Witness ==
    /\ codec.kind = "getdata"
    /\ codec.phase = "decoded"
    /\ codec.damage = "none"
    /\ Len(codec.message) = 1000
    /\ codec.payload[1] = Field(1, 253)
    /\ codec.result.ok

\* bytes are left over after the structure the payload declares
Leftover == codec.damage \in {"trailing", "surplus"}

\* C21: every decoder rejects trailing bytes.  When an addr, getdata or
\* object payload holds bytes after its declared structure, the read returns
\* no message but a parse error: addr and getdata refuse with TrailingBytes;
\* object refuses with TrailingBytes unless an earlier check of the reader
\* (the proof of work over the bytes after the nonce, or the object version)
\* has already refused the payload.
C21_TrailingRejected ==
    (codec.phase = "decoded" /\ Leftover) =>
        /\ ~codec.result.ok
        /\ codec.kind \in {"addr", "getdata"} => codec.result.err = "TrailingBytes"
        /\ ObjectDecoded =>
               codec.result.err \in {"TrailingBytes", "UnknownObjectVersion"} \cup PowErrors
        /\ (ObjectDecoded /\ Supported(codec.message)
               /\ verify_proof(codec.payload[1].v, ProofData(codec.payload),
                               Timespec(codec.payload[2].v, 0),
                               ProofOfWorkConfig(OBJECT_EXPIRY_CUTOFF, MAX_TTL, codec.clock)).ok) =>
               codec.result.err = "TrailingBytes"

\* an object payload whose proof of work and object are accepted is refused
\* for the byte that follows the object
C21_Witness ==
    /\ ObjectDecoded
    /\ Leftover
    /\ Supported(codec.message)
    /\ ~codec.result.ok
    /\ codec.result.err = "TrailingBytes"

\* C22: bootstrap seeding.  When the client starts, the bootstrap nodes are
\* added to the known-nodes store exactly when the store holds no node; a
\* store that holds a node is left as it is; after the start the store is
\* not empty, and every random pick of the connector returns a node of it.
C22_BootstrapSeeding ==
    [][/\ (client.pc = "new" /\ client'.pc = "started") =>
              IF Len(client.known_nodes) = 0
              THEN /\ client'.known_nodes = bootstrap_nodes(client.clock)
                   /\ client'.known_nodes # <<>>
              ELSE client'.known_nodes = client.known_nodes
       /\ client'.pc # "new" =>
              /\ client'.pc = "started"
              /\ client'.known_nodes # <<>>
       /\ client'.picked # client.picked =>
              \E i \in DOMAIN client.known_nodes : client'.picked = <<client.known_nodes[i]>>
      ]_vars

\* the connector picked the bootstrap node out of a store that was empty
\* when the client started
C22_Witness ==
    /\ client.pc = "started"
    /\ client.known_nodes = bootstrap_nodes(client.clock)
    /\ client.picked = <<client.known_nodes[1]>>

\* C23: whenever the state worker of a connection has terminated, for any
\* reason, the connection-state cell holds Stale or Error.
C23_TerminatedMeansTerminal ==
    (spawned = Workers /\ Gone(spc)) => state.tag \in Terminal

\* the tags of the cell while the handshake is under way
Handshaking == {"Fresh", "GotVersionAwaitingVerack", "GotVerackAwaitingVersion"}

\* how often the state worker has sent a Version of the peer on to the
\* respond worker during the handshake
HandshakeVersions ==
    Cardinality({i \in DOMAIN forwarded :
                    forwarded[i].msg = "Version" /\ forwarded[i].before \in Handshaking})

HandshakeReceived ==
    /\ \E i \in DOMAIN applied : applied[i] = "Version"
    /\ \E i \in DOMAIN applied : applied[i] = "Verack"

\* the state worker has stored Established for the Version that followed a
\* Verack, and has not yet sent that Version on
VersionInHand ==
    /\ spc = "send"
    /\ current_tag = "GotVerackAwaitingVersion"
    /\ forward_messages = <<"Version">>

\* C24 (as stated): whenever the state is Established, the state worker has
\* received a Version and a Verack of the peer, and has forwarded the peer's
\* Version to the respond worker exactly once during the handshake.
C24_EstablishedHandshake ==
    (handle.state = "shared" /\ state.tag = "Established") =>
        /\ HandshakeReceived
        /\ HandshakeVersions = 1

\* C24 (amended): whenever the state is Established, the state worker has
\* received a Version and a Verack of the peer and forwards the peer's Version
\* exactly once for the handshake: it has forwarded it once already, except
\* in the order Verack, Version, where the cell shows Established while the
\* state worker still holds that Version for its send, which cannot fail.
C24_EstablishedHandshakeSent ==
    (handle.state = "shared" /\ state.tag = "Established") =>
        /\ HandshakeReceived
        /\ IF VersionInHand
           THEN /\ HandshakeVersions = 0
                /\ ~Gone(xpc)
                /\ Fits(queue, "Version", MAX_WRITE_BUFFER)
           ELSE HandshakeVersions = 1

\* Established in the order Verack, Version: the Version of the handshake was
\* forwarded once and answered, and a later Version was forwarded as well
C24_Witness ==
    /\ handle.state = "shared"
    /\ state.tag = "Established"
    /\ applied[1] = "Verack"
    /\ HandshakeVersions = 1
    /\ Count("Version", [i \in DOMAIN forwarded |-> forwarded[i].msg]) = 2
    /\ Count("Verack", sent) = 1

\* Connection::new did not get a connection with its four threads
CreationFailed == handle.tcp_stream = "None" \/ spawned # Workers

\* C25: if the TCP connect fails in Connection::new, or one of the four
\* worker threads cannot be spawned, the returned Connection reports Error
\* from its creation on, whatever the threads that did start do afterwards.
C25_FailedCreationReportsError ==
    CreationFailed => ConnectionState = Bare("Error")

\* a thread could not be spawned; the others ran and took the state holder
\* of new_from_stream to Established, and the Connection reports Error
C25_Witness ==
    /\ CreationFailed
    /\ "state" \in spawned
    /\ state.tag = "Established"
    /\ ConnectionState = Bare("Error")

====
